---- MODULE Spec2Model ----
(***************************************************************************)
(* Model of jsleeio/frontpanels: the panel formats (Eurorack, Intellijel,  *)
(* Pulplogic), the feature model, the outline / header-footer / random     *)
(* line generators and the run of cmd/blind.                               *)
(*                                                                         *)
(* Lengths are float64 millimetres in the source.  Here every length is an *)
(* integer count of 1/10000 mm, a grid on which every constant of the      *)
(* source and every quotient the source takes (x/2) is exact:              *)
(*   5.08 mm = 50800, 0.25 mm = 2500, 0.118 inch = 2.9972 mm = 29972.      *)
(* Text sizes (points) use the same factor: 16.0 = 160000.                 *)
(***************************************************************************)
EXTENDS Integers, Sequences, FiniteSets, TLC

VARIABLES pc, cfg, pnl, rnd, feats, prims, logged, gerber, call, passed

vars == <<pc, cfg, pnl, rnd, feats, prims, logged, gerber, call, passed>>

\* passed is a history variable: every element of every list handed to
\* collectPrimitives so far, in the order handed over.  The program keeps no
\* such record; no action reads it.

(***************************************************************************)
(* Bounds of the model.                                                    *)
(***************************************************************************)
\* largest -width flag value tried (the flag is an int; widths 1..MaxWidth
\* cover the 1hp case, both extra-hole thresholds and wider panels)
MaxWidth == 12
\* smallest -width flag value tried is -MinWidthBelow + 1
MinWidthBelow == 2
\* the random source yields the fractions k/RandMod, k in 0..RandMod-1
RandMod == 32

(***************************************************************************)
(* pkg/geometry: Point                                                     *)
(***************************************************************************)
Point(x, y) == [X |-> x, Y |-> y]

(***************************************************************************)
(* pkg/features: Purpose and Alignment enumerations (iota values)          *)
(***************************************************************************)
Marking == 0
Cutout == 1

TopLeft == 0
TopCentre == 1
TopRight == 2
CentreLeft == 3
Centre == 4
CentreRight == 5
BottomLeft == 6
BottomCentre == 7
BottomRight == 8

Alignments == TopLeft..BottomRight

DefaultTextSize == 140000

\* the value a panicking constructor leaves behind: no feature
Panic == [kind |-> "panic"]

(***************************************************************************)
(* pkg/features: Line, Circle, Text                                        *)
(***************************************************************************)
\* variant of NewLine: a thickness of zero is refused too
NewLineRefusesZero(start, end, thickness) ==
  IF thickness <= 0
    THEN Panic
    ELSE [kind |-> "Line", Start |-> start, End |-> end,
          Thickness |-> thickness, Purpose |-> Marking]

NewLine(start, end, thickness) ==
  IF thickness < 0
    THEN Panic
    ELSE [kind |-> "Line", Start |-> start, End |-> end,
          Thickness |-> thickness, Purpose |-> Marking]

NewCircle(origin, radius) ==
  IF radius < 0
    THEN Panic
    ELSE [kind |-> "Circle", Origin |-> origin, Radius |-> radius,
          Purpose |-> Marking]

GetPurpose(f) == f.Purpose

\* variant of SetPurpose: the purpose is set on a copy (value receiver), the
\* feature held is left as it was
SetPurposeOnCopy(f, purpose) == f

SetPurpose(f, purpose) == [f EXCEPT !.Purpose = purpose]

\* option values: the closure together with the value it captured
WithAlignment(align) == [opt |-> "WithAlignment", val |-> align]
WithSize(size) == [opt |-> "WithSize", val |-> size]
WithRotation(r) == [opt |-> "WithRotation", val |-> r]

\* calling a TextOptionFunc on a Text
ApplyOption(o, t) ==
  CASE o.opt = "WithAlignment" -> [t EXCEPT !.Alignment = o.val]
    [] o.opt = "WithSize" -> [t EXCEPT !.Size = o.val]
    [] o.opt = "WithRotation" -> [t EXCEPT !.Rotate = o.val]

RECURSIVE ApplyOptions(_, _)
ApplyOptions(options, t) ==
  IF options = <<>>
    THEN t
    ELSE ApplyOptions(Tail(options), ApplyOption(Head(options), t))

\* variant of NewText: of an option given twice, the first one given wins
\* (the options are applied last to first)
NewTextFirstWins(origin, text, options) ==
  ApplyOptions([i \in 1..Len(options) |-> options[Len(options) + 1 - i]],
    [kind |-> "Text", Origin |-> origin, Alignment |-> TopLeft,
     Purpose |-> Marking, Text |-> text, Size |-> 140000, Rotate |-> 0])

NewText(origin, text, options) ==
  ApplyOptions(options,
    [kind |-> "Text", Origin |-> origin, Alignment |-> TopLeft,
     Purpose |-> Marking, Text |-> text, Size |-> 140000, Rotate |-> 0])

(***************************************************************************)
(* pkg/format/eurorack: constants                                          *)
(***************************************************************************)
\* 128.5 mm
PanelHeight3U == 1285000
EurorackExtraMountingHolesThreshold == 8
\* 7.5 mm
EurorackMountingHolesLeftOffset == 75000
\* PanelHeight3U - 3.00
MountingHoleTopY3U == PanelHeight3U - 30000
\* 3.00 mm
MountingHoleBottomY3U == 30000
\* 3.2 mm
EurorackMountingHoleDiameter == 32000
\* horizontal pitch, 5.08 mm
EurorackHP == 50800
\* 0.25 mm
EurorackHorizontalFitConst == 2500
EurorackCornerRadiusConst == 0
\* 5.0 mm
EurorackRailHeightFromMountingHoleConst == 50000

(***************************************************************************)
(* pkg/format/eurorack: Eurorack                                           *)
(***************************************************************************)
NewEurorack(hp) == [format |-> "eurorack", HP |-> hp]

\* variant: the 5.00 mm special case taken for every width up to 2
EurorackWidthNarrowUpTo2(e) ==
  IF e.HP <= 2 THEN 50000 ELSE EurorackHP * e.HP

EurorackWidth(e) ==
  IF e.HP = 1 THEN 50000 ELSE EurorackHP * e.HP

EurorackHeight(e) == PanelHeight3U

EurorackGetMountingHoleDiameter(e) == EurorackMountingHoleDiameter

\* variant: the left pair listed top hole first
EurorackMountingHolesTopFirst(e) ==
  LET lhsx == IF e.HP = 1
                THEN EurorackWidth(e) \div 2
                ELSE EurorackMountingHolesLeftOffset
      holes == << Point(lhsx, MountingHoleTopY3U),
                  Point(lhsx, MountingHoleBottomY3U) >>
      rhsx == EurorackMountingHolesLeftOffset + EurorackHP * (e.HP - 3)
  IN IF e.HP > EurorackExtraMountingHolesThreshold
       THEN Append(Append(holes, Point(rhsx, MountingHoleBottomY3U)),
                   Point(rhsx, MountingHoleTopY3U))
       ELSE holes

\* variant: no 1hp special case, the left pair always at the left offset
EurorackMountingHolesNoNarrowCase(e) ==
  LET lhsx == EurorackMountingHolesLeftOffset
      holes == << Point(lhsx, MountingHoleBottomY3U),
                  Point(lhsx, MountingHoleTopY3U) >>
      rhsx == EurorackMountingHolesLeftOffset + EurorackHP * (e.HP - 3)
  IN IF e.HP > EurorackExtraMountingHolesThreshold
       THEN Append(Append(holes, Point(rhsx, MountingHoleBottomY3U)),
                   Point(rhsx, MountingHoleTopY3U))
       ELSE holes

EurorackMountingHoles(e) ==
  LET lhsx == IF e.HP = 1
                THEN EurorackWidth(e) \div 2
                ELSE EurorackMountingHolesLeftOffset
      holes == << Point(lhsx, MountingHoleBottomY3U),
                  Point(lhsx, MountingHoleTopY3U) >>
      rhsx == EurorackMountingHolesLeftOffset + EurorackHP * (e.HP - 3)
  IN IF e.HP > EurorackExtraMountingHolesThreshold
       THEN Append(Append(holes, Point(rhsx, MountingHoleBottomY3U)),
                   Point(rhsx, MountingHoleTopY3U))
       ELSE holes

EurorackHorizontalFit(e) ==
  IF e.HP = 1 THEN 0 ELSE EurorackHorizontalFitConst

EurorackCornerRadius(e) == EurorackCornerRadiusConst

EurorackRailHeightFromMountingHole(e) == EurorackRailHeightFromMountingHoleConst

EurorackMountingHoleTopY(e) == MountingHoleTopY3U

EurorackMountingHoleBottomY(e) == MountingHoleBottomY3U

EurorackHeaderLocation(e) ==
  Point(EurorackWidth(e) \div 2, EurorackMountingHoleTopY(e))

EurorackFooterLocation(e) ==
  Point(EurorackWidth(e) \div 2, EurorackMountingHoleBottomY(e))

(***************************************************************************)
(* pkg/format/intellijel: constants                                        *)
(***************************************************************************)
\* 39.65 mm
IntellijelPanelHeight1U == 396500
IntellijelExtraMountingHolesThreshold == 6
IntellijelMountingHolesLeftOffset == EurorackMountingHolesLeftOffset
\* PanelHeight1U - 3.00
IntellijelMountingHoleTopY1U == IntellijelPanelHeight1U - 30000
\* 3.00 mm
IntellijelMountingHoleBottomY1U == 30000
IntellijelMountingHoleDiameter == EurorackMountingHoleDiameter
IntellijelHP == EurorackHP
\* 0.25 mm
IntellijelHorizontalFitConst == 2500
IntellijelCornerRadiusConst == 0
IntellijelRailHeightFromMountingHoleConst == EurorackRailHeightFromMountingHoleConst

(***************************************************************************)
(* pkg/format/intellijel: Intellijel                                       *)
(***************************************************************************)
NewIntellijel(hp) == [format |-> "intellijel", HP |-> hp]

IntellijelWidth(i) ==
  IF i.HP = 1 THEN 50000 ELSE IntellijelHP * i.HP

IntellijelHeight(i) == IntellijelPanelHeight1U

IntellijelGetMountingHoleDiameter(i) == IntellijelMountingHoleDiameter

\* variant: the right pair one pitch further right, at HP*(hp-2)
IntellijelMountingHolesRightShifted(i) ==
  LET lhsx == IF i.HP = 1
                THEN IntellijelWidth(i) \div 2
                ELSE IntellijelMountingHolesLeftOffset
      holes == << Point(lhsx, IntellijelMountingHoleBottomY1U),
                  Point(lhsx, IntellijelMountingHoleTopY1U) >>
      rhsx == IntellijelMountingHolesLeftOffset + IntellijelHP * (i.HP - 2)
  IN IF i.HP > IntellijelExtraMountingHolesThreshold
       THEN Append(Append(holes, Point(rhsx, IntellijelMountingHoleBottomY1U)),
                   Point(rhsx, IntellijelMountingHoleTopY1U))
       ELSE holes

IntellijelMountingHoles(i) ==
  LET lhsx == IF i.HP = 1
                THEN IntellijelWidth(i) \div 2
                ELSE IntellijelMountingHolesLeftOffset
      holes == << Point(lhsx, IntellijelMountingHoleBottomY1U),
                  Point(lhsx, IntellijelMountingHoleTopY1U) >>
      rhsx == IntellijelMountingHolesLeftOffset + IntellijelHP * (i.HP - 3)
  IN IF i.HP > IntellijelExtraMountingHolesThreshold
       THEN Append(Append(holes, Point(rhsx, IntellijelMountingHoleBottomY1U)),
                   Point(rhsx, IntellijelMountingHoleTopY1U))
       ELSE holes

\* variant: no 1hp special case, the tolerance is always 0.25 mm
IntellijelHorizontalFitAlways(i) == IntellijelHorizontalFitConst

IntellijelHorizontalFit(i) ==
  IF i.HP = 1 THEN 0 ELSE IntellijelHorizontalFitConst

IntellijelCornerRadius(i) == IntellijelCornerRadiusConst

IntellijelRailHeightFromMountingHole(i) == IntellijelRailHeightFromMountingHoleConst

IntellijelMountingHoleTopY(i) == IntellijelMountingHoleTopY1U

IntellijelMountingHoleBottomY(i) == IntellijelMountingHoleBottomY1U

IntellijelHeaderLocation(i) ==
  Point(IntellijelWidth(i) \div 2, IntellijelMountingHoleTopY(i))

IntellijelFooterLocation(i) ==
  Point(IntellijelWidth(i) \div 2, IntellijelMountingHoleBottomY(i))

(***************************************************************************)
(* pkg/format/pulplogic: constants.  The source writes them as products    *)
(* of untyped constants with inch = 25.4, which Go evaluates exactly.      *)
(***************************************************************************)
\* 25.4 mm
inch == 254000
\* 1.70 * inch
PulplogicPanelHeight1U == (170 * inch) \div 100
PulplogicExtraMountingHolesThreshold == 6
\* 0.2 * inch
PulplogicMountingHolesLeftOffset == (2 * inch) \div 10
\* 0.2 * inch
PulplogicMountingHolesRightOffset == (2 * inch) \div 10
\* PanelHeight1U - (0.118 * inch)
PulplogicMountingHoleTopY1U == PulplogicPanelHeight1U - ((118 * inch) \div 1000)
\* 0.118 * inch
PulplogicMountingHoleBottomY1U == (118 * inch) \div 1000
\* 0.125 * inch
PulplogicMountingHoleDiameter == (125 * inch) \div 1000
PulplogicHP == EurorackHP
PulplogicHorizontalFitConst == EurorackHorizontalFitConst
PulplogicCornerRadiusConst == 0
\* (0.291 / 2.0) * inch
PulplogicRailHeightFromMountingHoleConst == (1455 * inch) \div 10000

(***************************************************************************)
(* pkg/format/pulplogic: Pulplogic                                         *)
(***************************************************************************)
NewPulplogic(hp) == [format |-> "pulplogic", HP |-> hp]

PulplogicWidth(p) ==
  IF p.HP = 1 THEN 50000 ELSE PulplogicHP * p.HP

PulplogicHeight(p) == PulplogicPanelHeight1U

PulplogicGetMountingHoleDiameter(p) == PulplogicMountingHoleDiameter

\* variant: the extra pair added from the threshold on (>= for >)
PulplogicMountingHolesAtThreshold(p) ==
  LET lhsx == IF p.HP = 1
                THEN PulplogicWidth(p) \div 2
                ELSE PulplogicMountingHolesLeftOffset
      holes == << Point(lhsx, PulplogicMountingHoleBottomY1U),
                  Point(lhsx, PulplogicMountingHoleTopY1U) >>
      rhsx == PulplogicWidth(p) - PulplogicMountingHolesRightOffset
  IN IF p.HP >= PulplogicExtraMountingHolesThreshold
       THEN Append(Append(holes, Point(rhsx, PulplogicMountingHoleBottomY1U)),
                   Point(rhsx, PulplogicMountingHoleTopY1U))
       ELSE holes

\* variant: the right pair placed by the Eurorack rule, offset + HP*(hp-3)
PulplogicMountingHolesEurorackRule(p) ==
  LET lhsx == IF p.HP = 1
                THEN PulplogicWidth(p) \div 2
                ELSE PulplogicMountingHolesLeftOffset
      holes == << Point(lhsx, PulplogicMountingHoleBottomY1U),
                  Point(lhsx, PulplogicMountingHoleTopY1U) >>
      rhsx == PulplogicMountingHolesLeftOffset + PulplogicHP * (p.HP - 3)
  IN IF p.HP > PulplogicExtraMountingHolesThreshold
       THEN Append(Append(holes, Point(rhsx, PulplogicMountingHoleBottomY1U)),
                   Point(rhsx, PulplogicMountingHoleTopY1U))
       ELSE holes

PulplogicMountingHoles(p) ==
  LET lhsx == IF p.HP = 1
                THEN PulplogicWidth(p) \div 2
                ELSE PulplogicMountingHolesLeftOffset
      holes == << Point(lhsx, PulplogicMountingHoleBottomY1U),
                  Point(lhsx, PulplogicMountingHoleTopY1U) >>
      rhsx == PulplogicWidth(p) - PulplogicMountingHolesRightOffset
  IN IF p.HP > PulplogicExtraMountingHolesThreshold
       THEN Append(Append(holes, Point(rhsx, PulplogicMountingHoleBottomY1U)),
                   Point(rhsx, PulplogicMountingHoleTopY1U))
       ELSE holes

PulplogicHorizontalFit(p) ==
  IF p.HP = 1 THEN 0 ELSE PulplogicHorizontalFitConst

PulplogicCornerRadius(p) == PulplogicCornerRadiusConst

PulplogicRailHeightFromMountingHole(p) == PulplogicRailHeightFromMountingHoleConst

\* variant: the top row placed 3.00 mm below the top edge, as in the
\* Intellijel format, instead of 0.118 inch
PulplogicMountingHoleTopYMetric(p) == PulplogicPanelHeight1U - 30000

PulplogicMountingHoleTopY(p) == PulplogicMountingHoleTopY1U

PulplogicMountingHoleBottomY(p) == PulplogicMountingHoleBottomY1U

PulplogicHeaderLocation(p) ==
  Point(PulplogicWidth(p) \div 2, PulplogicMountingHoleTopY(p))

PulplogicFooterLocation(p) ==
  Point(PulplogicWidth(p) \div 2, PulplogicMountingHoleBottomY(p))

(***************************************************************************)
(* pkg/panel: the Panel interface.  A call on a Panel value runs the       *)
(* method of the value's dynamic type.                                     *)
(***************************************************************************)
MountingHoles(p) ==
  CASE p.format = "eurorack" -> EurorackMountingHoles(p)
    [] p.format = "intellijel" -> IntellijelMountingHoles(p)
    [] p.format = "pulplogic" -> PulplogicMountingHoles(p)

MountingHoleDiameter(p) ==
  CASE p.format = "eurorack" -> EurorackGetMountingHoleDiameter(p)
    [] p.format = "intellijel" -> IntellijelGetMountingHoleDiameter(p)
    [] p.format = "pulplogic" -> PulplogicGetMountingHoleDiameter(p)

Height(p) ==
  CASE p.format = "eurorack" -> EurorackHeight(p)
    [] p.format = "intellijel" -> IntellijelHeight(p)
    [] p.format = "pulplogic" -> PulplogicHeight(p)

Width(p) ==
  CASE p.format = "eurorack" -> EurorackWidth(p)
    [] p.format = "intellijel" -> IntellijelWidth(p)
    [] p.format = "pulplogic" -> PulplogicWidth(p)

HorizontalFit(p) ==
  CASE p.format = "eurorack" -> EurorackHorizontalFit(p)
    [] p.format = "intellijel" -> IntellijelHorizontalFit(p)
    [] p.format = "pulplogic" -> PulplogicHorizontalFit(p)

CornerRadius(p) ==
  CASE p.format = "eurorack" -> EurorackCornerRadius(p)
    [] p.format = "intellijel" -> IntellijelCornerRadius(p)
    [] p.format = "pulplogic" -> PulplogicCornerRadius(p)

RailHeightFromMountingHole(p) ==
  CASE p.format = "eurorack" -> EurorackRailHeightFromMountingHole(p)
    [] p.format = "intellijel" -> IntellijelRailHeightFromMountingHole(p)
    [] p.format = "pulplogic" -> PulplogicRailHeightFromMountingHole(p)

MountingHoleTopY(p) ==
  CASE p.format = "eurorack" -> EurorackMountingHoleTopY(p)
    [] p.format = "intellijel" -> IntellijelMountingHoleTopY(p)
    [] p.format = "pulplogic" -> PulplogicMountingHoleTopY(p)

MountingHoleBottomY(p) ==
  CASE p.format = "eurorack" -> EurorackMountingHoleBottomY(p)
    [] p.format = "intellijel" -> IntellijelMountingHoleBottomY(p)
    [] p.format = "pulplogic" -> PulplogicMountingHoleBottomY(p)

HeaderLocation(p) ==
  CASE p.format = "eurorack" -> EurorackHeaderLocation(p)
    [] p.format = "intellijel" -> IntellijelHeaderLocation(p)
    [] p.format = "pulplogic" -> PulplogicHeaderLocation(p)

FooterLocation(p) ==
  CASE p.format = "eurorack" -> EurorackFooterLocation(p)
    [] p.format = "intellijel" -> IntellijelFooterLocation(p)
    [] p.format = "pulplogic" -> PulplogicFooterLocation(p)

(***************************************************************************)
(* pkg/panel: corner helpers                                               *)
(***************************************************************************)
\* variant: the left edge inset by the whole tolerance
LeftXFullFit(spec) == HorizontalFit(spec)

LeftX(spec) == HorizontalFit(spec) \div 2

RightX(spec) == Width(spec) - HorizontalFit(spec) \div 2

TopY(spec) == Height(spec)

BottomY(spec) == 0

PanelTopLeft(spec) == Point(LeftX(spec), TopY(spec))

PanelTopRight(spec) == Point(RightX(spec), TopY(spec))

PanelBottomLeft(spec) == Point(LeftX(spec), BottomY(spec))

PanelBottomRight(spec) == Point(RightX(spec), BottomY(spec))

(***************************************************************************)
(* pkg/sources/panel and cmd/blind: the outline generator (two copies of   *)
(* the same function; main calls GeneratePanelOutlineFeatures)             *)
(***************************************************************************)
RECURSIVE OutlineHoles(_, _, _)
\* the loop over p.MountingHoles(): one Cutout circle appended per centre
OutlineHoles(p, centres, f) ==
  IF centres = <<>>
    THEN f
    ELSE LET hole == SetPurpose(
                       NewCircle(Head(centres), MountingHoleDiameter(p) \div 2),
                       Cutout)
         IN OutlineHoles(p, Tail(centres), Append(f, hole))

\* variant: the right edge left with its default purpose
GeneratePanelOutlineFeaturesRightMarking(p) ==
  LET top == SetPurpose(NewLine(PanelTopLeft(p), PanelTopRight(p), 1000), Cutout)
      bottom == SetPurpose(NewLine(PanelBottomLeft(p), PanelBottomRight(p), 1000), Cutout)
      left == SetPurpose(NewLine(PanelTopLeft(p), PanelBottomLeft(p), 1000), Cutout)
      right == NewLine(PanelTopRight(p), PanelBottomRight(p), 1000)
  IN OutlineHoles(p, MountingHoles(p), <<top, bottom, left, right>>)

GeneratePanelOutlineFeatures(p) ==
  LET top == SetPurpose(NewLine(PanelTopLeft(p), PanelTopRight(p), 1000), Cutout)
      bottom == SetPurpose(NewLine(PanelBottomLeft(p), PanelBottomRight(p), 1000), Cutout)
      left == SetPurpose(NewLine(PanelTopLeft(p), PanelBottomLeft(p), 1000), Cutout)
      right == SetPurpose(NewLine(PanelTopRight(p), PanelBottomRight(p), 1000), Cutout)
  IN OutlineHoles(p, MountingHoles(p), <<top, bottom, left, right>>)

panelOutline(p) ==
  LET top == SetPurpose(NewLine(PanelTopLeft(p), PanelTopRight(p), 1000), Cutout)
      bottom == SetPurpose(NewLine(PanelBottomLeft(p), PanelBottomRight(p), 1000), Cutout)
      left == SetPurpose(NewLine(PanelTopLeft(p), PanelBottomLeft(p), 1000), Cutout)
      right == SetPurpose(NewLine(PanelTopRight(p), PanelBottomRight(p), 1000), Cutout)
  IN OutlineHoles(p, MountingHoles(p), <<top, bottom, left, right>>)

(***************************************************************************)
(* cmd/blind: panelHeaderFooter                                            *)
(***************************************************************************)
\* variant: the footer emitted whether or not it is empty
panelHeaderFooterAlwaysFooter(p, header, footer) ==
  LET f0 == <<>>
      f1 == IF header # ""
              THEN Append(f0, NewText(Point(Width(p) \div 2, MountingHoleTopY(p)),
                                      header,
                                      <<WithAlignment(Centre), WithSize(160000)>>))
              ELSE f0
  IN Append(f1, NewText(Point(Width(p) \div 2, MountingHoleBottomY(p)),
                        footer,
                        <<WithAlignment(Centre), WithSize(160000)>>))

\* variant: the texts anchored at the right edge, X = Width
panelHeaderFooterAtWidth(p, header, footer) ==
  LET f0 == <<>>
      f1 == IF header # ""
              THEN Append(f0, NewText(Point(Width(p), MountingHoleTopY(p)),
                                      header,
                                      <<WithAlignment(Centre), WithSize(160000)>>))
              ELSE f0
      f2 == IF footer # ""
              THEN Append(f1, NewText(Point(Width(p), MountingHoleBottomY(p)),
                                      footer,
                                      <<WithAlignment(Centre), WithSize(160000)>>))
              ELSE f1
  IN f2

panelHeaderFooter(p, header, footer) ==
  LET f0 == <<>>
      f1 == IF header # ""
              THEN Append(f0, NewText(Point(Width(p) \div 2, MountingHoleTopY(p)),
                                      header,
                                      <<WithAlignment(Centre), WithSize(160000)>>))
              ELSE f0
      f2 == IF footer # ""
              THEN Append(f1, NewText(Point(Width(p) \div 2, MountingHoleBottomY(p)),
                                      footer,
                                      <<WithAlignment(Centre), WithSize(160000)>>))
              ELSE f1
  IN f2

(***************************************************************************)
(* cmd/blind: rendering features as gerber primitives                      *)
(***************************************************************************)
mkline(l) ==
  [prim |-> "Line", x1 |-> l.Start.X, y1 |-> l.Start.Y,
   x2 |-> l.End.X, y2 |-> l.End.Y, shape |-> "CircleShape",
   thickness |-> l.Thickness]

mkcircle(c) ==
  [prim |-> "Circle", x |-> c.Origin.X, y |-> c.Origin.Y,
   diameter |-> c.Radius * 2]

\* the alignment table; an alignment outside the table panics
mktextopts(t) ==
  CASE t.Alignment = TopLeft -> [XAlign |-> "XLeft", YAlign |-> "YTop"]
    [] t.Alignment = CentreLeft -> [XAlign |-> "XLeft", YAlign |-> "YCenter"]
    [] t.Alignment = BottomLeft -> [XAlign |-> "XLeft", YAlign |-> "YBottom"]
    [] t.Alignment = TopCentre -> [XAlign |-> "XCenter", YAlign |-> "YTop"]
    [] t.Alignment = Centre -> [XAlign |-> "XCenter", YAlign |-> "YCenter"]
    [] t.Alignment = BottomCentre -> [XAlign |-> "XCenter", YAlign |-> "YBottom"]
    [] t.Alignment = TopRight -> [XAlign |-> "XRight", YAlign |-> "YTop"]
    [] t.Alignment = CentreRight -> [XAlign |-> "XRight", YAlign |-> "YCenter"]
    [] t.Alignment = BottomRight -> [XAlign |-> "XRight", YAlign |-> "YBottom"]
    [] OTHER -> Panic

mktext(t) ==
  IF mktextopts(t) = Panic
    THEN Panic
    ELSE [prim |-> "Text", x |-> t.Origin.X, y |-> t.Origin.Y, xscale |-> 1,
          text |-> t.Text, font |-> "bitstreamverasansmono_bold",
          size |-> t.Size, opts |-> mktextopts(t)]

(***************************************************************************)
(* cmd/blind: primitives (the three buckets)                               *)
(***************************************************************************)
newprimitives == [outlines |-> <<>>, drills |-> <<>>, silkscreens |-> <<>>]

addoutline(p, pp) == [p EXCEPT !.outlines = Append(@, pp)]

\* variant: the primitive is put in front of the silkscreen bucket
addsilkscreenInFront(p, pp) == [p EXCEPT !.silkscreens = <<pp>> \o @]

addsilkscreen(p, pp) == [p EXCEPT !.silkscreens = Append(@, pp)]

adddrill(p, pp) == [p EXCEPT !.drills = Append(@, pp)]

(***************************************************************************)
(* cmd/blind: collectPrimitives.  The state of the loop is the buckets,    *)
(* the diagnostics written to the log, and whether the loop panicked.      *)
(***************************************************************************)
\* variant of the type switch: a Cutout circle is added to the outline
collectOneCircleToOutline(item, st) ==
  CASE item.kind = "Line" ->
         IF GetPurpose(item) = Cutout
           THEN [st EXCEPT !.prims = addoutline(@, mkline(item))]
           ELSE [st EXCEPT !.prims = addsilkscreen(@, mkline(item))]
    [] item.kind = "Text" ->
         IF mktext(item) = Panic
           THEN [st EXCEPT !.panicked = TRUE]
           ELSE IF GetPurpose(item) = Cutout
             THEN [st EXCEPT
                     !.logged = Append(@, [msg |-> "warning: text feature in outline layer is probably an error",
                                           arg |-> item.Text]),
                     !.prims = addoutline(@, mktext(item))]
             ELSE [st EXCEPT !.prims = addsilkscreen(@, mktext(item))]
    [] item.kind = "Circle" ->
         IF GetPurpose(item) = Cutout
           THEN [st EXCEPT !.prims = addoutline(@, mkcircle(item))]
           ELSE [st EXCEPT !.prims = addsilkscreen(@, mkcircle(item))]
    [] item.kind = "nil" ->
         [st EXCEPT !.panicked = TRUE]
    [] OTHER ->
         [st EXCEPT
            !.logged = Append(@, [msg |-> "warning: unsupported feature type",
                                  arg |-> item.kind])]

\* variant of the type switch: the warning is written for every text
collectOneWarnsEveryText(item, st) ==
  CASE item.kind = "Line" ->
         IF GetPurpose(item) = Cutout
           THEN [st EXCEPT !.prims = addoutline(@, mkline(item))]
           ELSE [st EXCEPT !.prims = addsilkscreen(@, mkline(item))]
    [] item.kind = "Text" ->
         IF mktext(item) = Panic
           THEN [st EXCEPT !.panicked = TRUE]
           ELSE IF GetPurpose(item) = Cutout
             THEN [st EXCEPT
                     !.logged = Append(@, [msg |-> "warning: text feature in outline layer is probably an error",
                                           arg |-> item.Text]),
                     !.prims = addoutline(@, mktext(item))]
             ELSE [st EXCEPT
                     !.logged = Append(@, [msg |-> "warning: text feature in outline layer is probably an error",
                                           arg |-> item.Text]),
                     !.prims = addsilkscreen(@, mktext(item))]
    [] item.kind = "Circle" ->
         IF GetPurpose(item) = Cutout
           THEN [st EXCEPT !.prims = adddrill(@, mkcircle(item))]
           ELSE [st EXCEPT !.prims = addsilkscreen(@, mkcircle(item))]
    [] item.kind = "nil" ->
         [st EXCEPT !.panicked = TRUE]
    [] OTHER ->
         [st EXCEPT
            !.logged = Append(@, [msg |-> "warning: unsupported feature type",
                                  arg |-> item.kind])]

\* one iteration of the loop: the type switch on item
collectOne(item, st) ==
  CASE item.kind = "Line" ->
         IF GetPurpose(item) = Cutout
           THEN [st EXCEPT !.prims = addoutline(@, mkline(item))]
           ELSE [st EXCEPT !.prims = addsilkscreen(@, mkline(item))]
    [] item.kind = "Text" ->
         IF mktext(item) = Panic
           THEN [st EXCEPT !.panicked = TRUE]
           ELSE IF GetPurpose(item) = Cutout
             THEN [st EXCEPT
                     !.logged = Append(@, [msg |-> "warning: text feature in outline layer is probably an error",
                                           arg |-> item.Text]),
                     !.prims = addoutline(@, mktext(item))]
             ELSE [st EXCEPT !.prims = addsilkscreen(@, mktext(item))]
    [] item.kind = "Circle" ->
         IF GetPurpose(item) = Cutout
           THEN [st EXCEPT !.prims = adddrill(@, mkcircle(item))]
           ELSE [st EXCEPT !.prims = addsilkscreen(@, mkcircle(item))]
    [] item.kind = "nil" ->
         \* reflect.TypeOf(nil) is nil: the call of Kind() on it panics
         [st EXCEPT !.panicked = TRUE]
    [] OTHER ->
         [st EXCEPT
            !.logged = Append(@, [msg |-> "warning: unsupported feature type",
                                  arg |-> item.kind])]

RECURSIVE collectLoop(_, _)
\* the loop over feats, in list order; a panic ends it.  The list is walked
\* by halves (first half, then second half from the state the first left),
\* which visits the items in the same order as the for loop
collectLoop(fs, st) ==
  IF fs = <<>> \/ st.panicked
    THEN st
    ELSE IF Len(fs) = 1
      THEN collectOne(fs[1], st)
      ELSE LET mid == Len(fs) \div 2
           IN collectLoop(SubSeq(fs, mid + 1, Len(fs)),
                          collectLoop(SubSeq(fs, 1, mid), st))

collectPrimitives(fs, p, lg) ==
  collectLoop(fs, [prims |-> p, logged |-> lg, panicked |-> FALSE])

(***************************************************************************)
(* math/rand as used by cmd/blind: the process-wide source is a state r    *)
(* that every draw advances; a draw yields the new state.  Float64 yields  *)
(* the fraction r/RandMod of [0, 1), Intn(n) yields r % n.                 *)
(***************************************************************************)
randAdvance(r) == (5 * r + 3) % RandMod

(***************************************************************************)
(* cmd/blind: randomLines                                                  *)
(***************************************************************************)
\* the closure rxy: two Float64 draws, X first; returns the point and the
\* state of the source after the draws
rxy(panel, r) ==
  LET xspace == Width(panel) - (HorizontalFit(panel) * 2)
      endheight == RailHeightFromMountingHole(panel) + MountingHoleBottomY(panel)
      yspace == Height(panel) - endheight * 2
      xoffset == HorizontalFit(panel) * 2
      yoffset == endheight
      r1 == randAdvance(r)
      r2 == randAdvance(r1)
  IN [pt |-> Point(xoffset + (r1 * xspace) \div RandMod,
                   yoffset + (r2 * yspace) \div RandMod),
      rnd |-> r2]

\* one iteration of the loop: rxy(), rxy(), then Intn(3) for the thickness
randomLine(panel, r) ==
  LET a == rxy(panel, r)
      b == rxy(panel, a.rnd)
      r5 == randAdvance(b.rnd)
      thickness == 1000 * (r5 % 3)
  IN [line |-> NewLine(a.pt, b.pt, thickness), rnd |-> r5]

RECURSIVE randomLinesLoop(_, _, _, _)
\* iterations i .. n-1 of the loop from the source state r, in order: the
\* lines they append and the source state they leave.  The range is walked
\* by halves, which runs the iterations in the same order as the for loop
randomLinesLoop(panel, i, n, r) ==
  IF ~(i < n)
    THEN [lines |-> <<>>, rnd |-> r]
    ELSE IF n - i = 1
      THEN LET one == randomLine(panel, r)
           IN [lines |-> <<one.line>>, rnd |-> one.rnd]
      ELSE LET mid == i + (n - i) \div 2
               first == randomLinesLoop(panel, i, mid, r)
               rest == randomLinesLoop(panel, mid, n, first.rnd)
           IN [lines |-> first.lines \o rest.lines, rnd |-> rest.rnd]

\* variant: the loop starts at 1, one line short
randomLinesFromOne(panel, n, r) == randomLinesLoop(panel, 1, n, r)

randomLines(panel, n, r) == randomLinesLoop(panel, 0, n, r)

\* pcb shops get confused if you don't include a copper layer
copperPour(p) ==
  LET left == LeftX(p)
      right == RightX(p)
      top == MountingHoleTopY(p) - RailHeightFromMountingHole(p)
      bottom == MountingHoleBottomY(p) + RailHeightFromMountingHole(p)
  IN [prim |-> "Polygon", filled |-> TRUE, thickness |-> 1000,
      points |-> << Point(left, top), Point(right, top), Point(right, bottom),
                    Point(left, bottom), Point(left, top) >>]

(***************************************************************************)
(* cmd/blind: configure                                                    *)
(***************************************************************************)
\* a nil panel.Panel
NoPanel == [format |-> "nil", HP |-> 0]

NoError == "nil"

\* the flag values the command line can give
FormatFlags == {"eurorack", "intellijel", "pulplogic", "kosmo"}
WidthFlags == (1 - MinWidthBelow)..MaxWidth
HeaderFlags == {"", "HEADER"}
FooterFlags == {"", "FOOTER"}

\* variant of configure: the format is looked at before the width
configureFormatFirst(format, width, name, header, footer) ==
  LET c == [format |-> format, width |-> width, name |-> name,
            header |-> header, footer |-> footer]
  IN IF format \notin {"eurorack", "intellijel", "pulplogic"}
       THEN [c |-> c, p |-> NoPanel, err |-> "invalid format specified"]
       ELSE IF width < 1
         THEN [c |-> c, p |-> NoPanel, err |-> "width must be greater than 0"]
         ELSE CASE format = "eurorack" ->
                     [c |-> c, p |-> NewEurorack(width), err |-> NoError]
                [] format = "intellijel" ->
                     [c |-> c, p |-> NewIntellijel(width), err |-> NoError]
                [] format = "pulplogic" ->
                     [c |-> c, p |-> NewPulplogic(width), err |-> NoError]

configure(format, width, name, header, footer) ==
  LET c == [format |-> format, width |-> width, name |-> name,
            header |-> header, footer |-> footer]
  IN IF width < 1
       THEN [c |-> c, p |-> NoPanel, err |-> "width must be greater than 0"]
       ELSE CASE format = "eurorack" ->
                   [c |-> c, p |-> NewEurorack(width), err |-> NoError]
              [] format = "intellijel" ->
                   [c |-> c, p |-> NewIntellijel(width), err |-> NoError]
              [] format = "pulplogic" ->
                   [c |-> c, p |-> NewPulplogic(width), err |-> NoError]
              [] OTHER ->
                   [c |-> c, p |-> NoPanel, err |-> "invalid format specified"]

(***************************************************************************)
(* cmd/blind: main, one action per step of the run                         *)
(***************************************************************************)
\* number of decorative lines main asks for
RandomLineCount == 100

\* no call of the features package made yet (see the feature-building runs)
NoCall == [op |-> "none"]

NoGerber == [outline |-> <<>>, topsilkscreen |-> <<>>, drill |-> <<>>,
             topcopper |-> <<>>, written |-> FALSE]

Init ==
  /\ pc = "configure"
  /\ cfg = [format |-> "", width |-> 0, name |-> "", header |-> "", footer |-> ""]
  /\ pnl = NoPanel
  /\ rnd \in 0..(RandMod - 1)
  /\ feats = <<>>
  /\ prims = newprimitives
  /\ logged = <<>>
  /\ gerber = NoGerber
  /\ call = NoCall
  /\ passed = <<>>

\* cfg, pnl, err := configure(); a failure is fatal
MainConfigure ==
  /\ pc = "configure"
  /\ \E format \in FormatFlags, width \in WidthFlags,
        header \in HeaderFlags, footer \in FooterFlags :
       LET res == configure(format, width, "blind", header, footer)
       IN /\ cfg' = res.c
          /\ pnl' = res.p
          /\ IF res.err # NoError
               THEN /\ logged' = Append(logged, [msg |-> "configure", arg |-> res.err])
                    /\ pc' = "exit1"
               ELSE /\ logged' = logged
                    /\ pc' = "outline"
  /\ UNCHANGED <<rnd, feats, prims, gerber, call, passed>>

\* the step of main that collects the list fs into the buckets
Collect(fs, next) ==
  LET st == collectPrimitives(fs, prims, logged)
  IN /\ feats' = fs
     /\ prims' = st.prims
     /\ logged' = st.logged
     /\ pc' = IF st.panicked THEN "panic" ELSE next
     /\ passed' = passed \o fs

\* collectPrimitives(panelsource.GeneratePanelOutlineFeatures(pnl), prims)
MainCollectOutline ==
  /\ pc = "outline"
  /\ Collect(GeneratePanelOutlineFeatures(pnl), "headerfooter")
  /\ UNCHANGED <<cfg, pnl, rnd, gerber, call>>

\* collectPrimitives(panelHeaderFooter(pnl, cfg.header, cfg.footer), prims)
MainCollectHeaderFooter ==
  /\ pc = "headerfooter"
  /\ Collect(panelHeaderFooter(pnl, cfg.header, cfg.footer), "randomlines")
  /\ UNCHANGED <<cfg, pnl, rnd, gerber, call>>

\* collectPrimitives(randomLines(pnl, 100), prims)
MainCollectRandomLines ==
  /\ pc = "randomlines"
  /\ LET res == randomLines(pnl, RandomLineCount, rnd)
     IN /\ rnd' = res.rnd
        /\ Collect(res.lines, "render")
  /\ UNCHANGED <<cfg, pnl, gerber, call>>

\* the buckets are added to the gerber layers and the files are written;
\* writing can fail, which is fatal
MainRender ==
  /\ pc = "render"
  /\ \E ok \in BOOLEAN :
       /\ gerber' = [outline |-> prims.outlines,
                     topsilkscreen |-> prims.silkscreens,
                     drill |-> prims.drills,
                     topcopper |-> <<copperPour(pnl)>>,
                     written |-> ok]
       /\ IF ok
            THEN /\ pc' = "done"
                 /\ logged' = logged
            ELSE /\ pc' = "exit1"
                 /\ logged' = Append(logged, [msg |-> "WriteGerber", arg |-> "error"])
  /\ UNCHANGED <<cfg, pnl, rnd, feats, prims, call, passed>>

Next ==
  \/ MainConfigure
  \/ MainCollectOutline
  \/ MainCollectHeaderFooter
  \/ MainCollectRandomLines
  \/ MainRender

Spec == Init /\ [][Next]_vars

(***************************************************************************)
(* collectPrimitives on its own.  main only ever passes Marking texts,     *)
(* lines of both purposes and Cutout circles; the function accepts any     *)
(* []features.Feature.  Here one bucket set receives a sequence of calls,  *)
(* each with a list drawn from every variant and purpose, a value of a     *)
(* type that is none of *Line, *Text, *Circle, and the nil interface.      *)
(***************************************************************************)
\* longest list passed in one call
MaxFeats == 2
\* most entries (bucket entries, diagnostics and pending list items) of one
\* bucket set
MaxCollected == 3

\* a Feature implemented by another pointer type: reflect gives Kind ptr
ForeignFeature == [kind |-> "ptr", Purpose |-> Cutout]

\* the nil Feature interface value
NilFeature == [kind |-> "nil"]

CollectFeatures ==
  LET line == NewLine(Point(0, 0), Point(10000, 20000), 1000)
      circle == NewCircle(Point(30000, 40000), 16000)
      text == NewText(Point(50000, 60000), "TXT", <<WithAlignment(Centre)>>)
  IN {line, SetPurpose(line, Cutout),
      circle, SetPurpose(circle, Cutout),
      text, SetPurpose(text, Cutout),
      ForeignFeature, NilFeature}

CollectLists ==
  UNION {[1..n -> CollectFeatures] : n \in 0..MaxFeats}

\* entries held by a bucket set and its log
Collected(p, lg) ==
  Len(p.outlines) + Len(p.drills) + Len(p.silkscreens) + Len(lg)

\* prims := newprimitives()
InitCollect ==
  /\ pc = "collect"
  /\ cfg = [format |-> "", width |-> 0, name |-> "", header |-> "", footer |-> ""]
  /\ pnl = NoPanel
  /\ rnd = 0
  /\ feats = <<>>
  /\ prims = newprimitives
  /\ logged = <<>>
  /\ gerber = NoGerber
  /\ call = NoCall
  /\ passed = <<>>

\* collectPrimitives(fs, prims)
CollectCall ==
  /\ pc = "collect"
  /\ \E fs \in CollectLists :
       /\ Collected(prims, logged) + Len(fs) <= MaxCollected
       /\ Collect(fs, "collect")
  /\ UNCHANGED <<cfg, pnl, rnd, gerber, call>>

NextCollect == CollectCall

SpecCollect == InitCollect /\ [][NextCollect]_vars

(***************************************************************************)
(* pkg/features on its own: a caller builds features with NewLine,         *)
(* NewCircle and NewText and sets the purpose of the feature it holds.     *)
(* feats holds the feature most recently built (features are pointers:     *)
(* SetPurpose updates it in place), call the last call and its arguments.  *)
(***************************************************************************)
\* longest options list passed to NewText
MaxOptions == 2

\* coordinates, thicknesses and radii passed: -0.1, 0, 0.1 and 1.6 mm for
\* the lengths that the constructors test
FeaturePoints == {Point(x, y) : x \in {0, 50800}, y \in {0, 1285000}}

FeatureLengths == {-1000, 0, 1000, 16000}

FeatureTexts == {"", "TXT"}

FeatureOptions ==
  {WithAlignment(Centre), WithAlignment(BottomRight),
   WithSize(160000), WithSize(120000), WithRotation(15708)}

FeatureOptionLists ==
  UNION {[1..n -> FeatureOptions] : n \in 0..MaxOptions}

Purposes == {Marking, Cutout}

InitFeatures ==
  /\ pc = "features"
  /\ cfg = [format |-> "", width |-> 0, name |-> "", header |-> "", footer |-> ""]
  /\ pnl = NoPanel
  /\ rnd = 0
  /\ feats = <<>>
  /\ prims = newprimitives
  /\ logged = <<>>
  /\ gerber = NoGerber
  /\ call = NoCall
  /\ passed = <<>>

\* what a constructor call leaves: the new feature, or a panic
Built(f) ==
  IF f = Panic
    THEN /\ pc' = "panic"
         /\ feats' = feats
    ELSE /\ pc' = "features"
         /\ feats' = <<f>>

\* l := features.NewLine(start, end, thickness)
CallNewLine ==
  /\ pc = "features"
  /\ \E start \in FeaturePoints, end \in FeaturePoints, thickness \in FeatureLengths :
       /\ call' = [op |-> "NewLine", start |-> start, end |-> end,
                   thickness |-> thickness]
       /\ Built(NewLine(start, end, thickness))
  /\ UNCHANGED <<cfg, pnl, rnd, prims, logged, gerber, passed>>

\* c := features.NewCircle(origin, radius)
CallNewCircle ==
  /\ pc = "features"
  /\ \E origin \in FeaturePoints, radius \in FeatureLengths :
       /\ call' = [op |-> "NewCircle", origin |-> origin, radius |-> radius]
       /\ Built(NewCircle(origin, radius))
  /\ UNCHANGED <<cfg, pnl, rnd, prims, logged, gerber, passed>>

\* t := features.NewText(origin, text, options...)
CallNewText ==
  /\ pc = "features"
  /\ \E origin \in FeaturePoints, text \in FeatureTexts,
        options \in FeatureOptionLists :
       /\ call' = [op |-> "NewText", origin |-> origin, text |-> text,
                   options |-> options]
       /\ Built(NewText(origin, text, options))
  /\ UNCHANGED <<cfg, pnl, rnd, prims, logged, gerber, passed>>

\* f.SetPurpose(purpose) on the feature held
CallSetPurpose ==
  /\ pc = "features"
  /\ feats # <<>>
  /\ \E purpose \in Purposes :
       /\ call' = [op |-> "SetPurpose", purpose |-> purpose]
       /\ feats' = <<SetPurpose(feats[1], purpose)>>
  /\ UNCHANGED <<pc, cfg, pnl, rnd, prims, logged, gerber, passed>>

NextFeatures ==
  \/ CallNewLine
  \/ CallNewCircle
  \/ CallNewText
  \/ CallSetPurpose

SpecFeatures == InitFeatures /\ [][NextFeatures]_vars

(***************************************************************************)
(* The panel formats on their own: a caller of the format packages builds  *)
(* a panel with NewEurorack, NewIntellijel or NewPulplogic, passing any    *)
(* int (no configure in front), and asks for its outline features.  pnl    *)
(* holds the panel most recently built, feats the list most recently       *)
(* generated.                                                              *)
(***************************************************************************)
InitFormats ==
  /\ pc = "formats"
  /\ cfg = [format |-> "", width |-> 0, name |-> "", header |-> "", footer |-> ""]
  /\ pnl = NoPanel
  /\ rnd = 0
  /\ feats = <<>>
  /\ prims = newprimitives
  /\ logged = <<>>
  /\ gerber = NoGerber
  /\ call = NoCall
  /\ passed = <<>>

\* p := eurorack.NewEurorack(hp)
CallNewEurorack ==
  /\ pc = "formats"
  /\ \E hp \in WidthFlags :
       /\ call' = [op |-> "NewEurorack", hp |-> hp]
       /\ pnl' = NewEurorack(hp)
  /\ UNCHANGED <<pc, cfg, rnd, feats, prims, logged, gerber, passed>>

\* p := intellijel.NewIntellijel(hp)
CallNewIntellijel ==
  /\ pc = "formats"
  /\ \E hp \in WidthFlags :
       /\ call' = [op |-> "NewIntellijel", hp |-> hp]
       /\ pnl' = NewIntellijel(hp)
  /\ UNCHANGED <<pc, cfg, rnd, feats, prims, logged, gerber, passed>>

\* p := pulplogic.NewPulplogic(hp)
CallNewPulplogic ==
  /\ pc = "formats"
  /\ \E hp \in WidthFlags :
       /\ call' = [op |-> "NewPulplogic", hp |-> hp]
       /\ pnl' = NewPulplogic(hp)
  /\ UNCHANGED <<pc, cfg, rnd, feats, prims, logged, gerber, passed>>

\* feats := panelsource.GeneratePanelOutlineFeatures(p)
CallGeneratePanelOutlineFeatures ==
  /\ pc = "formats"
  /\ pnl # NoPanel
  /\ call' = [op |-> "GeneratePanelOutlineFeatures", hp |-> pnl.HP]
  /\ feats' = GeneratePanelOutlineFeatures(pnl)
  /\ UNCHANGED <<pc, cfg, pnl, rnd, prims, logged, gerber, passed>>

NextFormats ==
  \/ CallNewEurorack
  \/ CallNewIntellijel
  \/ CallNewPulplogic
  \/ CallGeneratePanelOutlineFeatures

SpecFormats == InitFormats /\ [][NextFormats]_vars

(***************************************************************************)
(* Properties of the panel formats and of the generators.  A panel exists  *)
(* in every state after a successful configure: pnl # NoPanel.             *)
(***************************************************************************)
\* the extra-hole threshold of each format, as the documentation gives it
ThresholdOf(format) ==
  CASE format = "eurorack" -> 8
    [] format = "intellijel" -> 6
    [] format = "pulplogic" -> 6

\* the left offset, bottom row and top row of each format, in 1/10000 mm:
\* 7.5 / 3.00 / 125.5, 7.5 / 3.00 / 36.65, 5.08 / 2.9972 / 40.1828
LeftOffsetOf(format) ==
  CASE format = "eurorack" -> 75000
    [] format = "intellijel" -> 75000
    [] format = "pulplogic" -> 50800

BottomYOf(format) ==
  CASE format = "eurorack" -> 30000
    [] format = "intellijel" -> 30000
    [] format = "pulplogic" -> 29972

TopYOf(format) ==
  CASE format = "eurorack" -> 1255000
    [] format = "intellijel" -> 366500
    [] format = "pulplogic" -> 401828

\* C1: for each of the three formats and every width hp >= 2, Width() is
\* the pitch 5.08 mm multiplied by hp.
C1_WidthIsPitchTimesHP ==
  (pnl # NoPanel /\ pnl.HP >= 2) => Width(pnl) = 50800 * pnl.HP

C1_Witness ==
  /\ pc = "outline"
  /\ pnl = NewPulplogic(2)
  /\ Width(pnl) = 101600

C3_OneUnitPanel ==
  (pnl # NoPanel /\ pnl.HP = 1) =>
    /\ Width(pnl) = 50000
    /\ HorizontalFit(pnl) = 0
    /\ Len(MountingHoles(pnl)) = 2
    /\ \A i \in 1..2 : MountingHoles(pnl)[i].X = 25000
    /\ pnl.format = "eurorack" =>
         MountingHoles(pnl) = << Point(25000, 30000), Point(25000, 1255000) >>

C3_Witness ==
  /\ pc = "outline"
  /\ pnl = NewEurorack(1)
  /\ MountingHoles(pnl)[2] = Point(25000, 1255000)

\* C4: MountingHoles() returns exactly 4 points when hp is strictly above
\* the format's threshold (8, 6, 6) and exactly 2 points otherwise.
C4_HoleCountByThreshold ==
  pnl # NoPanel =>
    Len(MountingHoles(pnl)) =
      IF pnl.HP > ThresholdOf(pnl.format) THEN 4 ELSE 2

C4_Witness ==
  /\ pc = "outline"
  /\ pnl = NewPulplogic(7)
  /\ Len(MountingHoles(pnl)) = 4

\* C5: for every width hp >= 2 the first two mounting holes are
\* (leftOffset, bottomY) and (leftOffset, topY) in that order; Eurorack at
\* width 8 has Width 40.64, Height 128.5, HorizontalFit 0.25 and exactly
\* the two holes (7.5, 3.00) and (7.5, 125.5).
C5_LeftPairAtLeftOffset ==
  (pnl # NoPanel /\ pnl.HP >= 2) =>
    /\ MountingHoles(pnl)[1] =
         Point(LeftOffsetOf(pnl.format), BottomYOf(pnl.format))
    /\ MountingHoles(pnl)[2] =
         Point(LeftOffsetOf(pnl.format), TopYOf(pnl.format))
    /\ pnl = NewEurorack(8) =>
         /\ Width(pnl) = 406400
         /\ Height(pnl) = 1285000
         /\ HorizontalFit(pnl) = 2500
         /\ MountingHoles(pnl) = << Point(75000, 30000), Point(75000, 1255000) >>

C5_Witness ==
  /\ pc = "outline"
  /\ pnl = NewEurorack(8)
  /\ MountingHoles(pnl) = << Point(75000, 30000), Point(75000, 1255000) >>

\* C6: above the threshold the additional pair is at
\* X = 7.5 + 5.08*(hp - 3) for Eurorack and Intellijel (43.06 for Eurorack
\* at hp = 10) and at X = Width - 5.08 for Pulplogic, with the Y values of
\* the left pair.
C6_RightPairPosition ==
  (pnl # NoPanel /\ pnl.HP > ThresholdOf(pnl.format)) =>
    LET holes == MountingHoles(pnl)
        x == IF pnl.format = "pulplogic"
               THEN Width(pnl) - 50800
               ELSE 75000 + 50800 * (pnl.HP - 3)
    IN /\ Len(holes) = 4
       /\ holes[3].X = x /\ holes[4].X = x
       /\ holes[3].Y = holes[1].Y /\ holes[4].Y = holes[2].Y
       /\ pnl = NewEurorack(10) => x = 430600

C6_Witness ==
  /\ pc = "outline"
  /\ pnl = NewEurorack(10)
  /\ MountingHoles(pnl)[3] = Point(430600, 30000)
  /\ MountingHoles(pnl)[4] = Point(430600, 1255000)

\* C7: MountingHoleTopY(), MountingHoleBottomY() and the Y of every
\* mounting hole are constants of the format, the same for every width:
\* every hole Y is the format's bottomY or topY, and topY = Height - bottomY.
C7_HoleYIndependentOfWidth ==
  pnl # NoPanel =>
    /\ MountingHoleTopY(pnl) = TopYOf(pnl.format)
    /\ MountingHoleBottomY(pnl) = BottomYOf(pnl.format)
    /\ \A i \in 1..Len(MountingHoles(pnl)) :
         MountingHoles(pnl)[i].Y \in {BottomYOf(pnl.format), TopYOf(pnl.format)}
    /\ MountingHoleTopY(pnl) = Height(pnl) - MountingHoleBottomY(pnl)

C7_Witness ==
  /\ pc = "outline"
  /\ pnl = NewPulplogic(9)
  /\ MountingHoleTopY(pnl) = 401828
  /\ MountingHoles(pnl)[4].Y = 401828

\* the shape of an outline list fs for the panel p: four lines, then one
\* circle per mounting hole, in order, all Cutout
IsOutlineOf(fs, p) ==
  LET holes == MountingHoles(p)
  IN /\ Len(fs) = 4 + Len(holes)
     /\ \A i \in 1..4 : fs[i].kind = "Line"
     /\ \A i \in 1..Len(holes) :
          /\ fs[4 + i].kind = "Circle"
          /\ fs[4 + i].Origin = holes[i]
          /\ 2 * fs[4 + i].Radius = MountingHoleDiameter(p)
     /\ \A i \in 1..Len(fs) : fs[i].Purpose = Cutout

\* C8: the outline generator returns exactly 4 Line features followed by
\* exactly one Circle per point of MountingHoles(), in the same order,
\* centred on that point, with radius MountingHoleDiameter/2; every
\* returned feature has purpose Cutout.
C8_OutlineFourLinesThenHoles ==
  /\ pc = "headerfooter" => IsOutlineOf(feats, pnl)
  /\ pnl # NoPanel => IsOutlineOf(panelOutline(pnl), pnl)

C8_Witness ==
  /\ pc = "headerfooter"
  /\ pnl = NewIntellijel(7)
  /\ Len(feats) = 8
  /\ feats[8] = [kind |-> "Circle", Origin |-> Point(278200, 366500),
                 Radius |-> 16000, Purpose |-> Cutout]

\* C9: panelHeaderFooter returns one Text feature per non-empty string
\* among header and footer, the header's before the footer's.
C9_OneTextPerNonEmptyString ==
  pc = "randomlines" =>
    LET nh == IF cfg.header # "" THEN 1 ELSE 0
        nf == IF cfg.footer # "" THEN 1 ELSE 0
    IN /\ Len(feats) = nh + nf
       /\ \A i \in 1..Len(feats) : feats[i].kind = "Text"
       /\ nh = 1 => feats[1].Text = cfg.header
       /\ nf = 1 => feats[nh + 1].Text = cfg.footer

C9_Witness ==
  /\ pc = "randomlines"
  /\ cfg.header = "" /\ cfg.footer = "FOOTER"
  /\ Len(feats) = 1
  /\ feats[1].Text = "FOOTER"

\* C10: the header text has its origin at HeaderLocation(), the footer
\* text at FooterLocation(); both have alignment Centre, size 16.0 and
\* purpose Marking, whatever the format.
C10_TextsAtHeaderFooterLocation ==
  pc = "randomlines" =>
    LET nh == IF cfg.header # "" THEN 1 ELSE 0
    IN /\ cfg.header # "" =>
            (Len(feats) >= 1 /\ feats[1].Origin = HeaderLocation(pnl))
       /\ cfg.footer # "" =>
            (Len(feats) >= nh + 1 /\ feats[nh + 1].Origin = FooterLocation(pnl))
       /\ \A i \in 1..Len(feats) :
            /\ feats[i].Alignment = Centre
            /\ feats[i].Size = 160000
            /\ feats[i].Purpose = Marking

C10_Witness ==
  /\ pc = "randomlines"
  /\ pnl = NewPulplogic(4)
  /\ cfg.header = "HEADER" /\ cfg.footer = "FOOTER"
  /\ feats[1].Origin = Point(101600, 401828)
  /\ feats[2].Origin = Point(101600, 29972)


(***************************************************************************)
(* Properties of collectPrimitives, stated on the list a call received     *)
(* (feats') and on the buckets and the log before and after the call.      *)
(***************************************************************************)
\* the elements of a list that the loop gets to: all of them, or those
\* before the first nil element (see C13)
ReachedOf(fs) ==
  LET nils == {i \in 1..Len(fs) : fs[i].kind = "nil"}
  IN IF nils = {}
       THEN fs
       ELSE SubSeq(fs, 1, (CHOOSE i \in nils : \A j \in nils : i <= j) - 1)

IsKnownVariant(f) == f.kind \in {"Line", "Circle", "Text"}

ToOutline(f) == f.kind \in {"Line", "Text"} /\ f.Purpose = Cutout

ToDrill(f) == f.kind = "Circle" /\ f.Purpose = Cutout

ToSilkscreen(f) == IsKnownVariant(f) /\ f.Purpose = Marking

RenderingOf(f) ==
  CASE f.kind = "Line" -> mkline(f)
    [] f.kind = "Circle" -> mkcircle(f)
    [] f.kind = "Text" -> mktext(f)

RenderingsOf(fs) == [i \in 1..Len(fs) |-> RenderingOf(fs[i])]

\* C11: a call of collectPrimitives appends to the outline bucket exactly
\* the renderings of the Cutout lines and Cutout texts of its list, to the
\* drill bucket exactly those of the Cutout circles, to the silkscreen
\* bucket exactly those of the Marking lines, circles and texts, each in
\* list order; every Line, Circle or Text it classifies falls under exactly
\* one of the three, so it is added once and to one bucket, and the outline
\* and drill buckets never hold a rendering of the same feature (one holds
\* lines and texts only, the other circles only).
C11_RoutedByVariantAndPurpose ==
  [][pc = "collect" =>
       LET r == ReachedOf(feats')
       IN /\ prims'.outlines =
               prims.outlines \o RenderingsOf(SelectSeq(r, ToOutline))
          /\ prims'.drills =
               prims.drills \o RenderingsOf(SelectSeq(r, ToDrill))
          /\ prims'.silkscreens =
               prims.silkscreens \o RenderingsOf(SelectSeq(r, ToSilkscreen))
          /\ \A i \in 1..Len(r) :
               IsKnownVariant(r[i]) =>
                 Cardinality({b \in {"outline", "drill", "silkscreen"} :
                    \/ b = "outline" /\ ToOutline(r[i])
                    \/ b = "drill" /\ ToDrill(r[i])
                    \/ b = "silkscreen" /\ ToSilkscreen(r[i])}) = 1
          /\ Len(prims'.outlines) + Len(prims'.drills) + Len(prims'.silkscreens)
               = Len(prims.outlines) + Len(prims.drills) + Len(prims.silkscreens)
                 + Len(SelectSeq(r, IsKnownVariant))
          /\ \A i \in 1..Len(prims'.outlines) :
               prims'.outlines[i].prim \in {"Line", "Text"}
          /\ \A i \in 1..Len(prims'.drills) :
               prims'.drills[i].prim = "Circle"
    ]_vars

\* a Cutout line, a Cutout circle and a Marking circle have been classified
C11_Witness ==
  /\ pc = "collect"
  /\ prims.outlines = <<mkline(SetPurpose(NewLine(Point(0, 0), Point(10000, 20000), 1000), Cutout))>>
  /\ prims.drills = <<mkcircle(SetPurpose(NewCircle(Point(30000, 40000), 16000), Cutout))>>
  /\ prims.silkscreens = <<mkcircle(NewCircle(Point(30000, 40000), 16000))>>

IsCutoutText(f) == f.kind = "Text" /\ f.Purpose = Cutout

IsTextWarning(d) ==
  d.msg = "warning: text feature in outline layer is probably an error"

IsTextPrimitive(pp) == pp.prim = "Text"

\* what a call added to a sequence that only grows
AddedTo(before, after) == SubSeq(after, Len(before) + 1, Len(after))

\* C12: a call of collectPrimitives writes one text-in-outline warning per
\* Cutout text of its list (naming that text, in list order) and adds each
\* such text to the outline bucket; every Line, Circle or Text that follows
\* a Cutout text in the list is still added to a bucket; and a list with
\* only lines, circles and Marking texts writes nothing to the log.
C12_CutoutTextWarnedAndKept ==
  [][pc = "collect" =>
       LET r == ReachedOf(feats')
           cutoutTexts == SelectSeq(r, IsCutoutText)
           added == AddedTo(prims.outlines, prims'.outlines)
                      \o AddedTo(prims.drills, prims'.drills)
                      \o AddedTo(prims.silkscreens, prims'.silkscreens)
       IN /\ SelectSeq(AddedTo(logged, logged'), IsTextWarning) =
               [i \in 1..Len(cutoutTexts) |->
                  [msg |-> "warning: text feature in outline layer is probably an error",
                   arg |-> cutoutTexts[i].Text]]
          /\ SelectSeq(AddedTo(prims.outlines, prims'.outlines), IsTextPrimitive) =
               RenderingsOf(cutoutTexts)
          /\ \A i \in 1..Len(r) : \A j \in (i + 1)..Len(r) :
               IsCutoutText(r[i]) /\ IsKnownVariant(r[j]) =>
                 \E k \in 1..Len(added) : added[k] = RenderingOf(r[j])
          /\ (\A i \in 1..Len(r) : IsKnownVariant(r[i]) /\ ~IsCutoutText(r[i]))
               => logged' = logged
          /\ SubSeq(logged', 1, Len(logged)) = logged
    ]_vars

\* a list of a Cutout text followed by a Marking line has been classified
C12_Witness ==
  /\ pc = "collect"
  /\ Len(feats) = 2
  /\ IsCutoutText(feats[1])
  /\ feats[2].kind = "Line" /\ feats[2].Purpose = Marking
  /\ prims.outlines = <<mktext(feats[1])>>
  /\ prims.silkscreens = <<mkline(feats[2])>>
  /\ Len(logged) = 1 /\ IsTextWarning(logged[1]) /\ logged[1].arg = "TXT"

IsPrefixOf(a, b) == Len(a) <= Len(b) /\ SubSeq(b, 1, Len(a)) = a

\* C23: a call of collectPrimitives leaves what each bucket held in place,
\* in front of what it adds (append-only); and as long as every element
\* handed over so far was a Line, Circle or Text, the three buckets together
\* hold as many entries as elements were handed over, and each bucket holds
\* the renderings of its share of those elements in the order in which they
\* were handed over, across calls.
C23_BucketsAppendOnlyCountedOrdered ==
  [][/\ IsPrefixOf(prims.outlines, prims'.outlines)
     /\ IsPrefixOf(prims.drills, prims'.drills)
     /\ IsPrefixOf(prims.silkscreens, prims'.silkscreens)
     /\ (\A i \in 1..Len(passed') : IsKnownVariant(passed'[i])) =>
          /\ pc' # "panic"
          /\ Len(prims'.outlines) + Len(prims'.drills) + Len(prims'.silkscreens)
               = Len(passed')
          /\ prims'.outlines = RenderingsOf(SelectSeq(passed', ToOutline))
          /\ prims'.drills = RenderingsOf(SelectSeq(passed', ToDrill))
          /\ prims'.silkscreens = RenderingsOf(SelectSeq(passed', ToSilkscreen))
    ]_vars

\* two calls or more have handed over three features: a Marking line, then
\* a Cutout circle, then in a call of its own a Marking circle
C23_Witness ==
  /\ pc = "collect"
  /\ Len(passed) = 3
  /\ Len(feats) = 1
  /\ passed[1].kind = "Line" /\ passed[1].Purpose = Marking
  /\ passed[2].kind = "Circle" /\ passed[2].Purpose = Cutout
  /\ passed[3].kind = "Circle" /\ passed[3].Purpose = Marking
  /\ prims.silkscreens = <<mkline(passed[1]), mkcircle(passed[3])>>
  /\ prims.drills = <<mkcircle(passed[2])>>
  /\ prims.outlines = <<>>

IsUnsupportedWarning(d) == d.msg = "warning: unsupported feature type"

IsUnknownElement(f) == ~IsKnownVariant(f)

\* C13: a call of collectPrimitives does not abort on an element that is
\* none of Line, Circle, Text (a value of another type, or nil): it writes
\* one unsupported-type diagnostic per such element, adds none of them to a
\* bucket, and classifies every Line, Circle and Text of the list.
C13_UnknownElementsReportedAndSkipped ==
  [][pc = "collect" =>
       /\ pc' # "panic"
       /\ Len(SelectSeq(AddedTo(logged, logged'), IsUnsupportedWarning)) =
            Len(SelectSeq(feats', IsUnknownElement))
       /\ Len(prims'.outlines) + Len(prims'.drills) + Len(prims'.silkscreens)
            = Len(prims.outlines) + Len(prims.drills) + Len(prims.silkscreens)
              + Len(SelectSeq(feats', IsKnownVariant))
    ]_vars

(***************************************************************************)
(* Properties of the run of cmd/blind                                      *)
(***************************************************************************)
\* C14: when the -width flag is below 1 or the -format flag is none of
\* eurorack, intellijel, pulplogic, the configure step ends the run: the
\* only thing it leaves behind is the configure error in the log (no panel,
\* no feature list, empty buckets, no gerber output), and no step follows.
\* A width below 1 is reported as the width error whatever the format is.
C14_InvalidInputEndsRun ==
  [][/\ pc # "exit1"
     /\ (pc = "configure"
           /\ (cfg'.width < 1
                 \/ cfg'.format \notin {"eurorack", "intellijel", "pulplogic"}))
          => /\ pc' = "exit1"
             /\ pnl' = NoPanel
             /\ feats' = <<>>
             /\ prims' = newprimitives
             /\ gerber' = NoGerber
             /\ logged' =
                  <<[msg |-> "configure",
                     arg |-> IF cfg'.width < 1
                               THEN "width must be greater than 0"
                               ELSE "invalid format specified"]>>
    ]_vars

\* a run given both a width below 1 and an unknown format has ended
C14_Witness ==
  /\ pc = "exit1"
  /\ cfg.width < 1
  /\ cfg.format = "kosmo"
  /\ logged = <<[msg |-> "configure", arg |-> "width must be greater than 0"]>>
  /\ gerber = NoGerber

\* the horizontal-fit values compared: none, the formats' 0.25 mm, 0.5 mm
FitValues == {0, 2500, 5000}

\* the point rxy draws on a panel whose HorizontalFit() returns fit
rxyAtFit(panel, fit, r) ==
  LET xspace == Width(panel) - (fit * 2)
      endheight == RailHeightFromMountingHole(panel) + MountingHoleBottomY(panel)
      yspace == Height(panel) - endheight * 2
      r1 == randAdvance(r)
      r2 == randAdvance(r1)
  IN [pt |-> Point(fit * 2 + (r1 * xspace) \div RandMod,
                   endheight + (r2 * yspace) \div RandMod),
      rnd |-> r2]

randomLineAtFit(panel, fit, r) ==
  LET a == rxyAtFit(panel, fit, r)
      b == rxyAtFit(panel, fit, a.rnd)
      r5 == randAdvance(b.rnd)
  IN [line |-> NewLine(a.pt, b.pt, 1000 * (r5 % 3)), rnd |-> r5]

RECURSIVE randomLinesAtFit(_, _, _, _, _)
\* lines i .. n-1 of randomLines on a panel whose HorizontalFit() returns fit
randomLinesAtFit(panel, fit, i, n, r) ==
  IF ~(i < n)
    THEN [lines |-> <<>>, rnd |-> r]
    ELSE IF n - i = 1
      THEN LET one == randomLineAtFit(panel, fit, r)
           IN [lines |-> <<one.line>>, rnd |-> one.rnd]
      ELSE LET mid == i + (n - i) \div 2
               first == randomLinesAtFit(panel, fit, i, mid, r)
               rest == randomLinesAtFit(panel, fit, mid, n, first.rnd)
           IN [lines |-> first.lines \o rest.lines, rnd |-> rest.rnd]

\* C15: the horizontal fit moves nothing but the outline's left and right
\* edges: the decorative lines the run generates (same panel, same random
\* draws) are the lines it would generate for any other value of
\* HorizontalFit.
C15_FitMovesOnlyOutlineEdges ==
  [][pc = "randomlines" =>
       \A h \in FitValues :
         feats' = randomLinesAtFit(pnl, h, 0, RandomLineCount, rnd).lines
    ]_vars

\* C16: in the generated outline the left edge is at X = HorizontalFit and
\* the right edge at X = Width - HorizontalFit, so that the cut panel is
\* narrower than Width by twice HorizontalFit.
C16_OutlineInsetByFullFit ==
  pc = "headerfooter" =>
    /\ Len(feats) >= 4
    /\ feats[3].Start.X = HorizontalFit(pnl)
    /\ feats[3].End.X = HorizontalFit(pnl)
    /\ feats[4].Start.X = Width(pnl) - HorizontalFit(pnl)
    /\ feats[4].End.X = Width(pnl) - HorizontalFit(pnl)
    /\ feats[4].Start.X - feats[3].Start.X = Width(pnl) - 2 * HorizontalFit(pnl)

\* C17: every endpoint of every line randomLines returned lies in the safe
\* interior rectangle: 2*HorizontalFit <= X <= Width - 2*HorizontalFit and
\* endheight <= Y <= Height - endheight, where endheight is
\* RailHeightFromMountingHole + MountingHoleBottomY.
C17_RandomLinesInsideSafeRectangle ==
  pc = "render" =>
    LET endheight == RailHeightFromMountingHole(pnl) + MountingHoleBottomY(pnl)
    IN \A i \in 1..Len(feats) :
         \A pt \in {feats[i].Start, feats[i].End} :
           /\ 2 * HorizontalFit(pnl) <= pt.X
           /\ pt.X <= Width(pnl) - 2 * HorizontalFit(pnl)
           /\ endheight <= pt.Y
           /\ pt.Y <= Height(pnl) - endheight

(***************************************************************************)
(* Properties of pkg/features, stated on the last call (call') and on the  *)
(* feature held before and after it.                                       *)
(***************************************************************************)
\* C18: NewLine with a negative thickness and NewCircle with a negative
\* radius panic and leave no new feature; with a thickness or radius of 0 or
\* more they return a Line or Circle carrying exactly the points and the
\* thickness or radius given; so the Line or Circle held always has a
\* thickness or radius of at least 0.
C18_NegativeRefusedZeroAccepted ==
  [][/\ call'.op = "NewLine" =>
          IF call'.thickness < 0
            THEN pc' = "panic" /\ feats' = feats
            ELSE /\ pc' = "features"
                 /\ Len(feats') = 1
                 /\ feats'[1].kind = "Line"
                 /\ feats'[1].Start = call'.start
                 /\ feats'[1].End = call'.end
                 /\ feats'[1].Thickness = call'.thickness
     /\ call'.op = "NewCircle" =>
          IF call'.radius < 0
            THEN pc' = "panic" /\ feats' = feats
            ELSE /\ pc' = "features"
                 /\ Len(feats') = 1
                 /\ feats'[1].kind = "Circle"
                 /\ feats'[1].Origin = call'.origin
                 /\ feats'[1].Radius = call'.radius
     /\ \A i \in 1..Len(feats') :
          /\ feats'[i].kind = "Line" => feats'[i].Thickness >= 0
          /\ feats'[i].kind = "Circle" => feats'[i].Radius >= 0
    ]_vars

\* NewLine was called with thickness 0 and returned a line of thickness 0
C18_Witness ==
  /\ pc = "features"
  /\ call.op = "NewLine"
  /\ call.thickness = 0
  /\ feats # <<>>
  /\ feats[1].kind = "Line"
  /\ feats[1].Thickness = 0

\* the value of the last option named opt in a list, or a default
LastOptionOf(options, opt, default) ==
  LET given == {i \in 1..Len(options) : options[i].opt = opt}
  IN IF given = {}
       THEN default
       ELSE options[CHOOSE i \in given : \A j \in given : j <= i].val

\* C19: the Text NewText returns has the origin and string given, purpose
\* Marking, and for each of alignment, size and rotation the value of the
\* last option given for that field, or TopLeft, 14.0 and 0 when no option
\* was given for it (so with no options at all: TopLeft, 14.0, 0).
C19_TextDefaultsAndLastOptionWins ==
  (pc = "features" /\ call.op = "NewText") =>
    /\ Len(feats) = 1
    /\ feats[1].kind = "Text"
    /\ feats[1].Origin = call.origin
    /\ feats[1].Text = call.text
    /\ feats[1].Purpose = Marking
    /\ feats[1].Alignment = LastOptionOf(call.options, "WithAlignment", TopLeft)
    /\ feats[1].Size = LastOptionOf(call.options, "WithSize", 140000)
    /\ feats[1].Rotate = LastOptionOf(call.options, "WithRotation", 0)
    /\ call.options = <<>> =>
         /\ feats[1].Alignment = TopLeft
         /\ feats[1].Size = 140000
         /\ feats[1].Rotate = 0

\* NewText was given WithSize twice and returned a text of the second size,
\* with the default alignment and rotation
C19_Witness ==
  /\ pc = "features"
  /\ call.op = "NewText"
  /\ call.options = <<WithSize(160000), WithSize(120000)>>
  /\ feats[1].Size = 120000
  /\ feats[1].Alignment = TopLeft
  /\ feats[1].Rotate = 0

\* C20: a feature returned by NewLine, NewCircle or NewText has purpose
\* Marking; SetPurpose(p) leaves every field of the feature held as it was
\* except the purpose, and GetPurpose then returns p.
C20_FreshMarkingAndSetPurposeFrame ==
  [][/\ (call'.op \in {"NewLine", "NewCircle", "NewText"} /\ pc' # "panic") =>
          /\ Len(feats') = 1
          /\ GetPurpose(feats'[1]) = Marking
     /\ call'.op = "SetPurpose" =>
          /\ Len(feats) = 1 /\ Len(feats') = 1
          /\ GetPurpose(feats'[1]) = call'.purpose
          /\ DOMAIN feats'[1] = DOMAIN feats[1]
          /\ \A k \in DOMAIN feats[1] \ {"Purpose"} : feats'[1][k] = feats[1][k]
    ]_vars

\* a text built with options has had its purpose set to Cutout
C20_Witness ==
  /\ pc = "features"
  /\ call = [op |-> "SetPurpose", purpose |-> Cutout]
  /\ feats = <<SetPurpose(NewText(Point(50800, 1285000), "TXT",
                                  <<WithAlignment(Centre), WithSize(160000)>>),
                          Cutout)>>
  /\ GetPurpose(feats[1]) = Cutout

(***************************************************************************)
(* Properties of the panel formats built without configure in front        *)
(***************************************************************************)
\* C21: a constructor call with a width below 1 is refused, so that every
\* panel that exists has a width (HP) of at least 1 and a Width() above 0.
C21_PanelWidthAtLeastOne ==
  pnl # NoPanel => (pnl.HP >= 1 /\ Width(pnl) > 0)

Formats == {"eurorack", "intellijel", "pulplogic"}

\* the pitch of each format, 5.08 mm
PitchOf(format) ==
  CASE format = "eurorack" -> 50800
    [] format = "intellijel" -> 50800
    [] format = "pulplogic" -> 50800

\* distance of the right pair from the nominal right edge (Width), in
\* 1/10000 mm: 7.74 (= 3*5.08 - 7.5), 7.74, 5.08
RightOffsetOf(format) ==
  CASE format = "eurorack" -> 77400
    [] format = "intellijel" -> 77400
    [] format = "pulplogic" -> 50800

\* the width the placement works with: 5.00 mm at 1 unit, else pitch * hp
PlacementWidth(pitch, hp) == IF hp = 1 THEN 50000 ELSE pitch * hp

\* one placement function over the constants pitch, left offset, bottomY,
\* topY and threshold; rule names how the right pair is placed from them:
\* "fromLeft" at leftOffset + pitch*(hp-3), "fromWidth" at Width - leftOffset
PlacementOfFive(rule, pitch, leftOffset, bottomY, topY, threshold, hp) ==
  LET lhsx == IF hp = 1 THEN PlacementWidth(pitch, hp) \div 2 ELSE leftOffset
      rhsx == IF rule = "fromLeft"
                THEN leftOffset + pitch * (hp - 3)
                ELSE PlacementWidth(pitch, hp) - leftOffset
  IN IF hp > threshold
       THEN <<Point(lhsx, bottomY), Point(lhsx, topY),
              Point(rhsx, bottomY), Point(rhsx, topY)>>
       ELSE <<Point(lhsx, bottomY), Point(lhsx, topY)>>

\* one placement function over the constants pitch, left offset, right
\* offset, bottomY, topY and threshold
PlacementOfSix(pitch, leftOffset, rightOffset, bottomY, topY, threshold, hp) ==
  LET lhsx == IF hp = 1 THEN PlacementWidth(pitch, hp) \div 2 ELSE leftOffset
      rhsx == PlacementWidth(pitch, hp) - rightOffset
  IN IF hp > threshold
       THEN <<Point(lhsx, bottomY), Point(lhsx, topY),
              Point(rhsx, bottomY), Point(rhsx, topY)>>
       ELSE <<Point(lhsx, bottomY), Point(lhsx, topY)>>

\* C22 as stated: at the width of the panel built, the mounting holes of
\* all three formats are the result of one placement function (one rule for
\* the right pair) given the format's pitch, left offset, bottomY, topY and
\* threshold.
C22_OnePlacementOverFiveConstants ==
  (pnl # NoPanel /\ pnl.HP >= 1) =>
    \E rule \in {"fromLeft", "fromWidth"} :
      \A f \in Formats :
        MountingHoles([format |-> f, HP |-> pnl.HP]) =
          PlacementOfFive(rule, PitchOf(f), LeftOffsetOf(f), BottomYOf(f),
                          TopYOf(f), ThresholdOf(f), pnl.HP)

\* C22, amended: the mounting holes of each format are the result of one
\* placement function given the format's pitch, left offset, bottomY, topY,
\* threshold and a right offset: the left pair at the left offset (at
\* Width/2 for 1 unit), and above the threshold a right pair at Width minus
\* the right offset, which is 7.74 mm for Eurorack and Intellijel (the same
\* as leftOffset + pitch*(hp-3)) and 5.08 mm for Pulplogic.
C22_OnePlacementWithRightOffset ==
  (pnl # NoPanel /\ pnl.HP >= 1) =>
    /\ MountingHoles(pnl) =
         PlacementOfSix(PitchOf(pnl.format), LeftOffsetOf(pnl.format),
                        RightOffsetOf(pnl.format), BottomYOf(pnl.format),
                        TopYOf(pnl.format), ThresholdOf(pnl.format), pnl.HP)
    /\ (pnl.format \in {"eurorack", "intellijel"}
          /\ pnl.HP > ThresholdOf(pnl.format)) =>
         PlacementWidth(PitchOf(pnl.format), pnl.HP) - RightOffsetOf(pnl.format) =
           LeftOffsetOf(pnl.format) + PitchOf(pnl.format) * (pnl.HP - 3)

\* a Pulplogic panel above its threshold, right pair 5.08 mm from Width
C22_Witness ==
  /\ pc = "formats"
  /\ call = [op |-> "NewPulplogic", hp |-> 9]
  /\ pnl = NewPulplogic(9)
  /\ Len(MountingHoles(pnl)) = 4
  /\ MountingHoles(pnl)[3].X = Width(pnl) - 50800

IsCircleFeature(f) == f.kind = "Circle"

\* C24: for a panel of width 1 or more, every mounting-hole circle of the
\* generated outline lies inside the outline rectangle: X - radius and
\* X + radius within LeftX..RightX, Y - radius and Y + radius within
\* 0..Height; and of four holes the right pair is to the right of the left
\* pair by more than the two radii (the circles do not touch).
C24_HolesInsideOutline ==
  (pc = "formats" /\ call.op = "GeneratePanelOutlineFeatures" /\ pnl.HP >= 1) =>
    LET holes == SelectSeq(feats, IsCircleFeature)
    IN /\ Len(holes) = Len(MountingHoles(pnl))
       /\ Len(holes) \in {2, 4}
       /\ \A i \in 1..Len(holes) :
            /\ holes[i].Radius > 0
            /\ LeftX(pnl) <= holes[i].Origin.X - holes[i].Radius
            /\ holes[i].Origin.X + holes[i].Radius <= RightX(pnl)
            /\ 0 <= holes[i].Origin.Y - holes[i].Radius
            /\ holes[i].Origin.Y + holes[i].Radius <= Height(pnl)
       /\ Len(holes) = 4 =>
            \A l \in {1, 2}, r \in {3, 4} :
              holes[l].Origin.X + holes[l].Radius < holes[r].Origin.X - holes[r].Radius

\* the outline of an Intellijel panel just above its threshold: four holes
C24_Witness ==
  /\ pc = "formats"
  /\ call = [op |-> "GeneratePanelOutlineFeatures", hp |-> 7]
  /\ pnl = NewIntellijel(7)
  /\ Len(feats) = 8
  /\ feats[5].kind = "Circle" /\ feats[8].kind = "Circle"
  /\ feats[5].Origin.X < feats[7].Origin.X

(***************************************************************************)
(* Properties of the complete run                                          *)
(***************************************************************************)
\* number of non-empty strings among the -header and -footer flags
TextCountOf(c) ==
  (IF c.header # "" THEN 1 ELSE 0) + (IF c.footer # "" THEN 1 ELSE 0)

\* C25: in a run with a valid width and format nothing is handed to the
\* gerber layers before the three collections are done; when they are done
\* (the run is about to render) the elements handed to collectPrimitives
\* were, in this order, the 4 Cutout outline lines, one Cutout circle per
\* mounting hole (2 or 4), one Marking text per non-empty header/footer
\* string, then 100 Marking lines; the outline bucket holds 4 entries, the
\* drill bucket one per mounting hole, the silkscreen bucket 100 plus one per
\* non-empty string; and the log is empty.  The buckets are handed over with
\* these contents.
C25_CollectedInOrderBeforeRender ==
  /\ pc \in {"configure", "outline", "headerfooter", "randomlines", "render"}
       => gerber = NoGerber
  /\ pc = "outline" => passed = <<>>
  /\ pc = "headerfooter" => Len(passed) = 4 + Len(MountingHoles(pnl))
  /\ pc = "randomlines" =>
       Len(passed) = 4 + Len(MountingHoles(pnl)) + TextCountOf(cfg)
  /\ pc \in {"render", "done"} =>
       LET nh == Len(MountingHoles(pnl))
           nt == TextCountOf(cfg)
       IN /\ nh \in {2, 4}
          /\ Len(passed) = 4 + nh + nt + 100
          /\ \A i \in 1..4 :
               passed[i].kind = "Line" /\ passed[i].Purpose = Cutout
          /\ \A i \in 5..(4 + nh) :
               passed[i].kind = "Circle" /\ passed[i].Purpose = Cutout
          /\ \A i \in (5 + nh)..(4 + nh + nt) :
               passed[i].kind = "Text" /\ passed[i].Purpose = Marking
          /\ \A i \in (5 + nh + nt)..(4 + nh + nt + 100) :
               passed[i].kind = "Line" /\ passed[i].Purpose = Marking
          /\ Len(prims.outlines) = 4
          /\ Len(prims.drills) = nh
          /\ Len(prims.silkscreens) = 100 + nt
          /\ logged = <<>>
  /\ pc = "done" =>
       /\ gerber.outline = prims.outlines
       /\ gerber.drill = prims.drills
       /\ gerber.topsilkscreen = prims.silkscreens

\* a run with header, footer and four mounting holes is about to render
C25_Witness ==
  /\ pc = "render"
  /\ cfg.header # "" /\ cfg.footer # ""
  /\ Len(MountingHoles(pnl)) = 4
  /\ Len(prims.outlines) = 4
  /\ Len(prims.drills) = 4
  /\ Len(prims.silkscreens) = 102
  /\ logged = <<>>
  /\ gerber = NoGerber

====
